---------------------------- MODULE Spec2Model ----------------------------
(***************************************************************************)
(* A model of the web-cli in-memory file system                            *)
(* (project/src/hooks/useFileSystem.ts): the FileSystem value held by the  *)
(* useFileSystem hook, executeCommand and the state updaters it queues.    *)
(*                                                                         *)
(* JavaScript values are modelled as follows.                              *)
(*  - An object is a function from its own property names to values; a     *)
(*    node of the tree is such an object (name, type, content or children, *)
(*    created, modified), and a children mapping is an object keyed by     *)
(*    child name.                                                          *)
(*  - A property read obj[k] also finds the members every plain object     *)
(*    inherits from Object.prototype (ObjectPrototypeKeys).                *)
(*  - A Date is the integer value of the clock when it was taken.          *)
(*  - A command line is the list of its whitespace-separated tokens.       *)
(*  - An output string is the list of the pieces it is concatenated from;  *)
(*    the empty string is the empty list.                                  *)
(***************************************************************************)
EXTENDS Integers, Sequences, FiniteSets, TLC

VARIABLES
    fileSystem,   \* the useState value: [root, currentPath]
    objectCtor,   \* own enumerable properties of the global Object function
    crashed,      \* a state updater threw while React applied it
    pc,           \* "ready" for a command line, or "returned" from one
    cmd,          \* the tokens of the last command line executed
    result,       \* the CommandResult the last command returned
    heldView,     \* what a reference to the previous fileSystem value shows
    rendered,     \* the fileSystem value the executeCommand closure captured
    clock,        \* the wall clock: the value the next new Date() takes
    currentInput,   \* the terminal's input line
    commandHistory, \* the terminal's list of the command lines submitted
    historyIndex    \* the terminal's position in that list, -1 for none

hookVars ==
    <<fileSystem, objectCtor, crashed, pc, cmd, result, heldView, rendered,
      clock>>

terminalVars == <<currentInput, commandHistory, historyIndex>>

vars == <<hookVars, terminalVars>>

---------------------------------------------------------------------------
(* Bounds of the model *)

\* The last value of the clock a command may stamp a node with.
MaxClock == 2

\* Names typed as the operand of rm, rmdir and cat.
NameArgs == {"user", "welcome.txt", "Z", "constructor"}

\* Names typed as the operand of mkdir and touch.
NewNameArgs == {"Z", "constructor"}

\* Operands typed to mv and cp: every name, and "home", onto "Z".
PairArgs == {<<n, "Z">> : n \in NameArgs \cup {"home"}}

\* Path strings typed as the operand of cd.
PathArgs == {"..", ".", "/home", "Z", "welcome.txt", "constructor"}

\* Path strings typed as the operand of ls.
LsArgs == {"..", "welcome.txt", "/home/.."}

\* URLs typed as the operand of curl.
UrlArgs == {"http://api", "ftp://x"}

---------------------------------------------------------------------------
(* JavaScript objects *)

EmptyObject == [k \in {} |-> TRUE]

Undefined == [undefined |-> TRUE]

Null == [null |-> TRUE]

\* !v is false for every object and true for undefined and null.
Truthy(v) == ("undefined" \notin DOMAIN v) /\ ("null" \notin DOMAIN v)

\* Members inherited from Object.prototype by every children mapping (a
\* plain object literal, or the output of JSON.parse).
ObjectPrototypeKeys == {"constructor"}

\* The inherited member: a built-in function object.
Builtin(k) == [builtin |-> k]

IsBuiltin(v) == "builtin" \in DOMAIN v

\* obj[k]
Get(obj, k) ==
    IF k \in DOMAIN obj THEN obj[k]
    ELSE IF k \in ObjectPrototypeKeys THEN Builtin(k)
    ELSE Undefined

\* v.type
TypeOf(v) == IF "type" \in DOMAIN v THEN v.type ELSE "undefined"

\* v.children is truthy
HasChildren(v) == "children" \in DOMAIN v

\* obj[k] = v
SetKey(obj, k, v) ==
    [x \in (DOMAIN obj) \cup {k} |-> IF x = k THEN v ELSE obj[x]]

\* delete obj[k]
DeleteKey(obj, k) == [x \in (DOMAIN obj) \ {k} |-> obj[x]]

\* {...v}: the own enumerable properties of v (none for undefined and null)
Spread(v, ctor) ==
    IF IsBuiltin(v) THEN ctor ELSE IF Truthy(v) THEN v ELSE EmptyObject

---------------------------------------------------------------------------
(* The seed tree *)

WelcomeText == "Welcome to the Web CLI Terminal!"

DirItem(name, children, now) ==
    [name |-> name, type |-> "directory", children |-> children,
     created |-> now, modified |-> now]

FileItem(name, content, now) ==
    [name |-> name, type |-> "file", content |-> content,
     created |-> now, modified |-> now]

DefaultHome == <<"home", "user">>

createInitialFileSystem(now) ==
    LET user == DirItem("user",
                    ("welcome.txt" :> FileItem("welcome.txt", WelcomeText, now))
                 @@ ("documents" :> DirItem("documents", EmptyObject, now)),
                    now)
        home == DirItem("home", ("user" :> user), now)
        tmp  == DirItem("tmp", EmptyObject, now)
    IN  [root |-> DirItem("", ("home" :> home) @@ ("tmp" :> tmp), now),
         currentPath |-> DefaultHome]


---------------------------------------------------------------------------
(* Strings *)

\* s.split('/') on the path strings the model types; a string without a
\* slash splits into itself.
SplitTable ==
       ("/home" :> <<"", "home">>)
    @@ ("/home/.." :> <<"", "home", "..">>)
    @@ ("/" :> <<"", "">>)
    @@ ("/home/user" :> <<"", "home", "user">>)

SplitSlash(s) == IF s \in DOMAIN SplitTable THEN SplitTable[s] ELSE <<s>>

\* s.startsWith('/')
StartsWithSlash(s) == Len(SplitSlash(s)) >= 2 /\ SplitSlash(s)[1] = ""

\* list.filter(Boolean): the non-empty strings of the list, in order
FilterBoolean(list) == SelectSeq(list, LAMBDA x : x # "")

\* The pieces of the string s as an output: '' has none.
Str(s) == IF s = "" THEN <<>> ELSE <<s>>

---------------------------------------------------------------------------
(* Lookup *)

\* The loop of getCurrentDirectory and getItemAtPath: follow the segments
\* from current; missing when a step finds no children or no such member.
RECURSIVE WalkFrom(_, _, _)
WalkFrom(current, path, missing) ==
    IF path = <<>> THEN current
    ELSE IF HasChildren(current) /\ Truthy(Get(current.children, Head(path)))
         THEN WalkFrom(Get(current.children, Head(path)), Tail(path), missing)
         ELSE missing

getCurrentDirectory(fs) == WalkFrom(fs.root, fs.currentPath, fs.root)

getItemAtPath(fs, path) == WalkFrom(fs.root, path, Null)

\* The loop of resolvePath over the segments of a relative path.
RECURSIVE ApplySegments(_, _)
ApplySegments(currentPath, segments) ==
    IF segments = <<>> THEN currentPath
    ELSE LET segment == Head(segments)
             next == IF segment = ".."
                       THEN IF Len(currentPath) > 0
                              THEN SubSeq(currentPath, 1, Len(currentPath) - 1)
                              ELSE currentPath
                     ELSE IF segment # "." THEN Append(currentPath, segment)
                     ELSE currentPath
         IN  ApplySegments(next, Tail(segments))

resolvePath(fs, inputPath) ==
    IF StartsWithSlash(inputPath)
      THEN FilterBoolean(SplitSlash(inputPath))
      ELSE ApplySegments(fs.currentPath, FilterBoolean(SplitSlash(inputPath)))

---------------------------------------------------------------------------
(* Results and state updaters *)

Success(output) == [output |-> output, error |-> FALSE]

Failure(output) == [output |-> output, error |-> TRUE]

\* What executeCommand does: the result it returns and the updater it
\* passes to setFileSystem, if any.
NoUpdate == [kind |-> "none"]

Returns(res) == [result |-> res, update |-> NoUpdate]

Queues(update) == [result |-> Success(<<>>), update |-> update]

\* args[i], with the empty string for a token that is not there (both are
\* falsy)
Arg(args, i) == IF Len(args) > i THEN args[i + 1] ELSE ""

\* What an updater leaves behind: the value it returns (fs), whether it
\* threw, the Object function's properties, and what the object prev, which
\* it was given, shows afterwards.
Installed(fs, prevAfter, ctor) ==
    [threw |-> FALSE, fs |-> fs, prevAfter |-> prevAfter, ctor |-> ctor]

Thrown(prev, ctor) ==
    [threw |-> TRUE, fs |-> prev, prevAfter |-> prev, ctor |-> ctor]

\* Mutant of JsonClone: { ...prev }, a copy that shares its nodes with prev.
JsonCloneShallow(prev) == [fs |-> prev, shared |-> TRUE]

\* JSON.parse(JSON.stringify(prev)): a copy that shares no object with prev.
JsonClone(prev) == [fs |-> prev, shared |-> FALSE]

\* The loop `current = current.children[segment]` of the updaters, which
\* tests nothing: reading .children of undefined, or a member of a missing
\* children mapping, throws a TypeError.
RECURSIVE UpdaterWalk(_, _)
UpdaterWalk(current, path) ==
    IF ~Truthy(current) THEN [threw |-> TRUE]
    ELSE IF path = <<>> THEN [threw |-> FALSE, node |-> current]
    ELSE IF ~HasChildren(current) THEN [threw |-> TRUE]
    ELSE UpdaterWalk(Get(current.children, Head(path)), Tail(path))

\* Mutant of ReplaceAt: the edited directory is returned in place of the
\* tree it belongs to.
ReplaceAtReturnsCurrent(root, path, node) == node

\* The tree with the node at path replaced by node.
RECURSIVE ReplaceAt(_, _, _)
ReplaceAt(root, path, node) ==
    IF path = <<>> THEN node
    ELSE [root EXCEPT !.children =
            [@ EXCEPT ![Head(path)] = ReplaceAt(@, Tail(path), node)]]

\* Whether the walk, or the read of current.children that follows it in
\* every updater, throws.
WalkThrows(walk) == walk.threw \/ ~HasChildren(walk.node)

\* `return newFileSystem` after the in-place edits of the copy's current
\* directory: the copy with that directory as edited. An edit of a copy
\* that shares its nodes with prev shows through prev as well.
ReturnCopy(prev, copy, edited, ctor) ==
    LET newRoot == ReplaceAt(copy.fs.root, prev.currentPath, edited)
    IN  Installed([copy.fs EXCEPT !.root = newRoot],
                  IF copy.shared THEN [prev EXCEPT !.root = newRoot] ELSE prev,
                  ctor)

\* prev => ({ ...prev, currentPath: targetPath })
CdUpdater(prev, ctor, targetPath) ==
    Installed([prev EXCEPT !.currentPath = targetPath], prev, ctor)

MkdirUpdater(prev, ctor, name, now) ==
    LET copy == JsonClone(prev)
        walk == UpdaterWalk(copy.fs.root, prev.currentPath)
    IN  IF WalkThrows(walk) THEN Thrown(prev, ctor)
        ELSE LET current == walk.node
                 children == SetKey(current.children, name,
                                    DirItem(name, EmptyObject, now))
                 edited == SetKey(SetKey(current, "children", children),
                                  "modified", now)
             IN  ReturnCopy(prev, copy, edited, ctor)

TouchUpdater(prev, ctor, name, now) ==
    LET copy == JsonClone(prev)
        walk == UpdaterWalk(copy.fs.root, prev.currentPath)
    IN  IF WalkThrows(walk) THEN Thrown(prev, ctor)
        ELSE LET current == walk.node
                 child == Get(current.children, name)
                 \* current.children[name].modified = now, on the child or on
                 \* the inherited member
                 children ==
                     IF ~Truthy(child)
                       THEN SetKey(current.children, name,
                                   FileItem(name, "", now))
                     ELSE IF IsBuiltin(child) THEN current.children
                     ELSE SetKey(current.children, name,
                                 SetKey(child, "modified", now))
                 ctorAfter ==
                     IF Truthy(child) /\ IsBuiltin(child)
                       THEN SetKey(ctor, "modified", now)
                       ELSE ctor
                 edited == SetKey(SetKey(current, "children", children),
                                  "modified", now)
             IN  ReturnCopy(prev, copy, edited, ctorAfter)

\* Mutant of DeleteUpdater: the current directory's modified time is not
\* set.
DeleteUpdaterNoStamp(prev, ctor, name, now) ==
    LET copy == JsonClone(prev)
        walk == UpdaterWalk(copy.fs.root, prev.currentPath)
    IN  IF WalkThrows(walk) THEN Thrown(prev, ctor)
        ELSE LET current == walk.node
                 children == DeleteKey(current.children, name)
                 edited == SetKey(current, "children", children)
             IN  ReturnCopy(prev, copy, edited, ctor)

\* The updater of rm and of rmdir.
DeleteUpdater(prev, ctor, name, now) ==
    LET copy == JsonClone(prev)
        walk == UpdaterWalk(copy.fs.root, prev.currentPath)
    IN  IF WalkThrows(walk) THEN Thrown(prev, ctor)
        ELSE LET current == walk.node
                 children == DeleteKey(current.children, name)
                 edited == SetKey(SetKey(current, "children", children),
                                  "modified", now)
             IN  ReturnCopy(prev, copy, edited, ctor)

\* Mutant of MvUpdater: the node is stored under dest with the name it had.
MvUpdaterKeepsName(prev, ctor, src, dest, now) ==
    LET copy == JsonClone(prev)
        walk == UpdaterWalk(copy.fs.root, prev.currentPath)
    IN  IF WalkThrows(walk) THEN Thrown(prev, ctor)
        ELSE LET current == walk.node
                 moved == Spread(Get(current.children, src), ctor)
                 children == DeleteKey(SetKey(current.children, dest, moved),
                                       src)
                 edited == SetKey(SetKey(current, "children", children),
                                  "modified", now)
             IN  ReturnCopy(prev, copy, edited, ctor)

MvUpdater(prev, ctor, src, dest, now) ==
    LET copy == JsonClone(prev)
        walk == UpdaterWalk(copy.fs.root, prev.currentPath)
    IN  IF WalkThrows(walk) THEN Thrown(prev, ctor)
        ELSE LET current == walk.node
                 moved == SetKey(Spread(Get(current.children, src), ctor),
                                 "name", dest)
                 children == DeleteKey(SetKey(current.children, dest, moved),
                                       src)
                 edited == SetKey(SetKey(current, "children", children),
                                  "modified", now)
             IN  ReturnCopy(prev, copy, edited, ctor)

CpUpdater(prev, ctor, src, dest, now) ==
    LET copy == JsonClone(prev)
        walk == UpdaterWalk(copy.fs.root, prev.currentPath)
    IN  IF WalkThrows(walk) THEN Thrown(prev, ctor)
        ELSE LET current == walk.node
                 copied == SetKey(SetKey(SetKey(
                               Spread(Get(current.children, src), ctor),
                               "name", dest), "created", now), "modified", now)
                 children == SetKey(current.children, dest, copied)
                 edited == SetKey(SetKey(current, "children", children),
                                  "modified", now)
             IN  ReturnCopy(prev, copy, edited, ctor)

\* The updater queued by a command, applied to prev.
ApplyUpdate(prev, ctor, update) ==
    CASE update.kind = "cd" -> CdUpdater(prev, ctor, update.path)
      [] update.kind = "mkdir" ->
            MkdirUpdater(prev, ctor, update.name, update.now)
      [] update.kind = "touch" ->
            TouchUpdater(prev, ctor, update.name, update.now)
      [] update.kind = "delete" ->
            DeleteUpdater(prev, ctor, update.name, update.now)
      [] update.kind = "mv" ->
            MvUpdater(prev, ctor, update.src, update.dest, update.now)
      [] update.kind = "cp" ->
            CpUpdater(prev, ctor, update.src, update.dest, update.now)
      [] OTHER -> Installed(prev, prev, ctor)

---------------------------------------------------------------------------
(* ls *)

\* a.name.localeCompare(b.name) on the names of the model: their order under
\* the default collation.
LocaleOrder ==
    <<"constructor", "documents", "home", "tmp", "user", "welcome.txt", "Z">>

LocaleRank(name) ==
    IF \E i \in 1..Len(LocaleOrder) : LocaleOrder[i] = name
      THEN CHOOSE i \in 1..Len(LocaleOrder) : LocaleOrder[i] = name
      ELSE 0

\* The comparator of ls: directories first, then by localeCompare. (A node
\* without a type is ordered with the files.)
LsBefore(a, b) ==
    IF (TypeOf(a) = "directory") # (TypeOf(b) = "directory")
      THEN TypeOf(a) = "directory"
      ELSE LocaleRank(a.name) =< LocaleRank(b.name)

\* Object.values(children).filter(item => item && item.name).sort(...)
RECURSIVE SortItems(_)
SortItems(items) ==
    IF items = {} THEN <<>>
    ELSE LET first == CHOOSE a \in items :
                          \A b \in items \ {a} : LsBefore(a, b)
         IN  <<first>> \o SortItems(items \ {first})

LsItems(dir) ==
    SortItems({dir.children[k] : k \in {x \in DOMAIN dir.children :
        "name" \in DOMAIN dir.children[x] /\ dir.children[x].name # ""}})

\* One line of ls: the kind flag and the name (the size and date columns
\* are left out).
LsLine(item) ==
    IF TypeOf(item) = "directory" THEN <<"d", item.name, "/">>
                                  ELSE <<"-", item.name>>

RECURSIVE JoinLines(_)
JoinLines(items) ==
    IF items = <<>> THEN <<>>
    ELSE IF Len(items) = 1 THEN LsLine(items[1])
    ELSE LsLine(items[1]) \o <<"\n">> \o JoinLines(Tail(items))

\* The argument as the template literal prints it.
Shown(arg) == IF arg = "" THEN "undefined" ELSE arg

ExecLs(fs, args) ==
    LET targetPath == IF Arg(args, 1) # "" THEN resolvePath(fs, Arg(args, 1))
                                          ELSE fs.currentPath
        targetDir == getItemAtPath(fs, targetPath)
    IN  IF ~Truthy(targetDir)
          THEN Returns(Failure(<<"ls: cannot access '", Shown(Arg(args, 1)),
                                 "': No such file or directory">>))
        ELSE IF TypeOf(targetDir) # "directory"
          THEN Returns(Failure(<<"ls: cannot access '", Shown(Arg(args, 1)),
                                 "': Not a directory">>))
        ELSE IF ~HasChildren(targetDir) \/ DOMAIN targetDir.children = {}
          THEN Returns(Success(<<>>))
        ELSE Returns(Success(JoinLines(LsItems(targetDir))))

---------------------------------------------------------------------------
(* The other commands *)

HelpText == "Available commands: ..."

RECURSIVE JoinSlash(_)
JoinSlash(path) ==
    IF path = <<>> THEN <<>>
    ELSE IF Len(path) = 1 THEN <<path[1]>>
    ELSE <<path[1], "/">> \o JoinSlash(Tail(path))

\* Mutant of ExecPwd: the leading '/' is left out.
ExecPwdRelative(fs) == Returns(Success(JoinSlash(fs.currentPath)))

ExecPwd(fs) == Returns(Success(<<"/">> \o JoinSlash(fs.currentPath)))

\* Mutant of ExecCd: without an argument the cursor goes to root.
ExecCdNoArgToRoot(fs, args) ==
    IF Arg(args, 1) = "" THEN Queues([kind |-> "cd", path |-> <<>>])
    ELSE LET targetPath == resolvePath(fs, Arg(args, 1))
             targetDir == getItemAtPath(fs, targetPath)
         IN  IF ~Truthy(targetDir)
               THEN Returns(Failure(<<"cd: ", Arg(args, 1),
                                      ": No such file or directory">>))
             ELSE IF TypeOf(targetDir) # "directory"
               THEN Returns(Failure(<<"cd: ", Arg(args, 1),
                                      ": Not a directory">>))
             ELSE Queues([kind |-> "cd", path |-> targetPath])

ExecCd(fs, args) ==
    IF Arg(args, 1) = "" THEN Queues([kind |-> "cd", path |-> DefaultHome])
    ELSE LET targetPath == resolvePath(fs, Arg(args, 1))
             targetDir == getItemAtPath(fs, targetPath)
         IN  IF ~Truthy(targetDir)
               THEN Returns(Failure(<<"cd: ", Arg(args, 1),
                                      ": No such file or directory">>))
             ELSE IF TypeOf(targetDir) # "directory"
               THEN Returns(Failure(<<"cd: ", Arg(args, 1),
                                      ": Not a directory">>))
             ELSE Queues([kind |-> "cd", path |-> targetPath])

\* Mutant of ExecMkdir: the updater is queued before the 'File exists'
\* test.
ExecMkdirQueuesFirst(fs, args, now) ==
    IF Arg(args, 1) = ""
      THEN Returns(Failure(<<"mkdir: missing operand">>))
    ELSE LET currentDir == getCurrentDirectory(fs)
         IN  IF ~HasChildren(currentDir)
               THEN Returns(Failure(
                   <<"mkdir: cannot create directory: Permission denied">>))
             ELSE [result |->
                     IF Truthy(Get(currentDir.children, Arg(args, 1)))
                       THEN Failure(<<"mkdir: cannot create directory '",
                                      Arg(args, 1), "': File exists">>)
                       ELSE Success(<<>>),
                   update |-> [kind |-> "mkdir", name |-> Arg(args, 1),
                               now |-> now]]

ExecMkdir(fs, args, now) ==
    IF Arg(args, 1) = ""
      THEN Returns(Failure(<<"mkdir: missing operand">>))
    ELSE LET currentDir == getCurrentDirectory(fs)
         IN  IF ~HasChildren(currentDir)
               THEN Returns(Failure(
                   <<"mkdir: cannot create directory: Permission denied">>))
             ELSE IF Truthy(Get(currentDir.children, Arg(args, 1)))
               THEN Returns(Failure(<<"mkdir: cannot create directory '",
                                      Arg(args, 1), "': File exists">>))
             ELSE Queues([kind |-> "mkdir", name |-> Arg(args, 1),
                          now |-> now])

ExecTouch(fs, args, now) ==
    IF Arg(args, 1) = ""
      THEN Returns(Failure(<<"touch: missing file operand">>))
    ELSE LET currentDir == getCurrentDirectory(fs)
         IN  IF ~HasChildren(currentDir)
               THEN Returns(Failure(
                   <<"touch: cannot create file: Permission denied">>))
             ELSE Queues([kind |-> "touch", name |-> Arg(args, 1),
                          now |-> now])

ExecRm(fs, args, now) ==
    IF Arg(args, 1) = ""
      THEN Returns(Failure(<<"rm: missing operand">>))
    ELSE LET currentDir == getCurrentDirectory(fs)
         IN  IF ~HasChildren(currentDir)
                \/ ~Truthy(Get(currentDir.children, Arg(args, 1)))
               THEN Returns(Failure(<<"rm: cannot remove '", Arg(args, 1),
                                      "': No such file or directory">>))
             ELSE IF TypeOf(Get(currentDir.children, Arg(args, 1)))
                       = "directory"
               THEN Returns(Failure(<<"rm: cannot remove '", Arg(args, 1),
                                      "': Is a directory">>))
             ELSE Queues([kind |-> "delete", name |-> Arg(args, 1),
                          now |-> now])

\* Mutant of ExecRmdir: the 'Directory not empty' test is left out.
ExecRmdirUnguarded(fs, args, now) ==
    IF Arg(args, 1) = ""
      THEN Returns(Failure(<<"rmdir: missing operand">>))
    ELSE LET currentDir == getCurrentDirectory(fs)
         IN  IF ~HasChildren(currentDir)
                \/ ~Truthy(Get(currentDir.children, Arg(args, 1)))
               THEN Returns(Failure(<<"rmdir: failed to remove '",
                       Arg(args, 1), "': No such file or directory">>))
             ELSE IF TypeOf(Get(currentDir.children, Arg(args, 1)))
                       # "directory"
               THEN Returns(Failure(<<"rmdir: failed to remove '",
                       Arg(args, 1), "': Not a directory">>))
             ELSE Queues([kind |-> "delete", name |-> Arg(args, 1),
                          now |-> now])

ExecRmdir(fs, args, now) ==
    IF Arg(args, 1) = ""
      THEN Returns(Failure(<<"rmdir: missing operand">>))
    ELSE LET currentDir == getCurrentDirectory(fs)
         IN  IF ~HasChildren(currentDir)
                \/ ~Truthy(Get(currentDir.children, Arg(args, 1)))
               THEN Returns(Failure(<<"rmdir: failed to remove '",
                       Arg(args, 1), "': No such file or directory">>))
             ELSE LET targetDir == Get(currentDir.children, Arg(args, 1))
                  IN  IF TypeOf(targetDir) # "directory"
                        THEN Returns(Failure(<<"rmdir: failed to remove '",
                                Arg(args, 1), "': Not a directory">>))
                      ELSE IF HasChildren(targetDir)
                              /\ DOMAIN targetDir.children # {}
                        THEN Returns(Failure(<<"rmdir: failed to remove '",
                                Arg(args, 1), "': Directory not empty">>))
                      ELSE Queues([kind |-> "delete", name |-> Arg(args, 1),
                                   now |-> now])

ExecCat(fs, args) ==
    IF Arg(args, 1) = ""
      THEN Returns(Failure(<<"cat: missing file operand">>))
    ELSE LET currentDir == getCurrentDirectory(fs)
         IN  IF ~HasChildren(currentDir)
                \/ ~Truthy(Get(currentDir.children, Arg(args, 1)))
               THEN Returns(Failure(<<"cat: ", Arg(args, 1),
                                      ": No such file or directory">>))
             ELSE LET file == Get(currentDir.children, Arg(args, 1))
                  IN  IF TypeOf(file) # "file"
                        THEN Returns(Failure(<<"cat: ", Arg(args, 1),
                                               ": Is a directory">>))
                      ELSE Returns(Success(
                               IF "content" \in DOMAIN file
                                 THEN Str(file.content) ELSE <<>>))

\* url.match(/^https?:\/\//) and url.includes('api') || url.includes('json')
\* on the URLs the model types
HttpUrls == {"http://api", "http://x"}

ApiUrls == {"http://api"}

ExecCurl(args) ==
    IF Arg(args, 1) = ""
      THEN Returns(Failure(<<"curl: no URL specified">>))
    ELSE IF Arg(args, 1) \notin HttpUrls
      THEN Returns(Failure(
          <<"curl: (1) Protocol not supported or disabled in libcurl">>))
    ELSE IF Arg(args, 1) \in ApiUrls
      THEN Returns(Success(<<"{ \"message\": ..., \"url\": ", Arg(args, 1),
                             ", ... \"id\": 1 ... }">>))
    ELSE Returns(Success(<<"<!DOCTYPE html> ... ", Arg(args, 1), " ...">>))

ExecMv(fs, args, now) ==
    IF Arg(args, 1) = "" \/ Arg(args, 2) = ""
      THEN Returns(Failure(<<"mv: missing file operand">>))
    ELSE LET currentDir == getCurrentDirectory(fs)
         IN  IF ~HasChildren(currentDir)
                \/ ~Truthy(Get(currentDir.children, Arg(args, 1)))
               THEN Returns(Failure(<<"mv: cannot stat '", Arg(args, 1),
                                      "': No such file or directory">>))
             ELSE IF Truthy(Get(currentDir.children, Arg(args, 2)))
               THEN Returns(Failure(<<"mv: cannot move '", Arg(args, 1),
                       "' to '", Arg(args, 2), "': File exists">>))
             ELSE Queues([kind |-> "mv", src |-> Arg(args, 1),
                          dest |-> Arg(args, 2), now |-> now])

ExecCp(fs, args, now) ==
    IF Arg(args, 1) = "" \/ Arg(args, 2) = ""
      THEN Returns(Failure(<<"cp: missing file operand">>))
    ELSE LET currentDir == getCurrentDirectory(fs)
         IN  IF ~HasChildren(currentDir)
                \/ ~Truthy(Get(currentDir.children, Arg(args, 1)))
               THEN Returns(Failure(<<"cp: cannot stat '", Arg(args, 1),
                                      "': No such file or directory">>))
             ELSE IF Truthy(Get(currentDir.children, Arg(args, 2)))
               THEN Returns(Failure(<<"cp: cannot create regular file '",
                                      Arg(args, 2), "': File exists">>))
             ELSE IF TypeOf(Get(currentDir.children, Arg(args, 1)))
                       = "directory"
               THEN Returns(Failure(<<"cp: -r not specified; omitting directory '",
                                      Arg(args, 1), "'">>))
             ELSE Queues([kind |-> "cp", src |-> Arg(args, 1),
                          dest |-> Arg(args, 2), now |-> now])

supportedCommands ==
    {"mkdir", "ls", "cd", "rmdir", "rm", "touch", "mv", "cp", "curl", "pwd",
     "cat", "help", "clear"}

executeCommand(fs, args, now) ==
    LET command == Arg(args, 0)
    IN  IF command = "" THEN Returns(Success(<<>>))
        ELSE IF command \notin supportedCommands
          THEN Returns(Failure(<<"Command not recognized: ", command>>))
        ELSE CASE command = "help" -> Returns(Success(<<HelpText>>))
               [] command = "clear" -> Returns(Success(<<"CLEAR_TERMINAL">>))
               [] command = "pwd" -> ExecPwd(fs)
               [] command = "ls" -> ExecLs(fs, args)
               [] command = "cd" -> ExecCd(fs, args)
               [] command = "mkdir" -> ExecMkdir(fs, args, now)
               [] command = "touch" -> ExecTouch(fs, args, now)
               [] command = "rm" -> ExecRm(fs, args, now)
               [] command = "rmdir" -> ExecRmdir(fs, args, now)
               [] command = "cat" -> ExecCat(fs, args)
               [] command = "curl" -> ExecCurl(args)
               [] command = "mv" -> ExecMv(fs, args, now)
               [] command = "cp" -> ExecCp(fs, args, now)

---------------------------------------------------------------------------
(* The state machine *)

SeedTime == 0

\* Mutant of executeCommandClosure: useCallback with an empty dependency
\* list, which keeps the closure of the first render.
executeCommandClosureStale(captured, state) == captured

\* useCallback(..., [fileSystem, ...]): the executeCommand of a render
\* captures the fileSystem value of that render.
executeCommandClosure(captured, state) == state

MutatingKinds == {"mkdir", "touch", "delete", "mv", "cp"}

Init ==
    /\ fileSystem = createInitialFileSystem(SeedTime)
    /\ objectCtor = EmptyObject
    /\ crashed = FALSE
    /\ pc = "ready"
    /\ cmd = <<>>
    /\ result = Success(<<>>)
    /\ heldView = createInitialFileSystem(SeedTime)
    /\ rendered = executeCommandClosure(createInitialFileSystem(SeedTime),
                                        createInitialFileSystem(SeedTime))
    /\ clock = SeedTime + 1
    /\ currentInput = ""
    /\ commandHistory = <<>>
    /\ historyIndex = -1

\* One command line: the executeCommand of the last render runs on the
\* fileSystem value it captured and returns its result, and React applies
\* the updater it queued, with prev the current state, and renders again
\* before the next event is handled. An updater that throws takes the
\* component down. A command that stamps a node takes the clock's
\* value and the clock moves on.
Execute(args) ==
    /\ pc = "ready"
    /\ ~crashed
    /\ \E exec \in {executeCommand(rendered, args, clock)} :
       \E applied \in {ApplyUpdate(fileSystem, objectCtor, exec.update)} :
       LET stamps == exec.update.kind \in MutatingKinds
       IN  /\ stamps => clock =< MaxClock
           /\ pc' = "returned"
           /\ cmd' = args
           /\ result' = exec.result
           /\ crashed' = applied.threw
           /\ fileSystem' = applied.fs
           /\ objectCtor' = applied.ctor
           /\ heldView' = applied.prevAfter
           /\ rendered' = IF applied.threw THEN rendered
                          ELSE executeCommandClosure(rendered, applied.fs)
           /\ clock' = IF stamps THEN clock + 1 ELSE clock

\* A command line given to executeCommand, the terminal's input line and
\* history not followed (HistorySpec follows them).
Submit(args) == Execute(args) /\ UNCHANGED terminalVars

Help == Submit(<<"help">>)

Clear == Submit(<<"clear">>)

Pwd == Submit(<<"pwd">>)

Ls == Submit(<<"ls">>) \/ \E p \in LsArgs : Submit(<<"ls", p>>)

Cd == Submit(<<"cd">>) \/ \E p \in PathArgs : Submit(<<"cd", p>>)

Mkdir == \E n \in NewNameArgs : Submit(<<"mkdir", n>>)

Touch == \E n \in NewNameArgs : Submit(<<"touch", n>>)

Rm == \E n \in NameArgs : Submit(<<"rm", n>>)

Rmdir == \E n \in NameArgs : Submit(<<"rmdir", n>>)

Cat == \E n \in NameArgs : Submit(<<"cat", n>>)

Curl == \E u \in UrlArgs : Submit(<<"curl", u>>)

Mv == \E p \in PairArgs : Submit(<<"mv">> \o p)

Cp == \E p \in PairArgs : Submit(<<"cp">> \o p)

MissingOperand ==
    \/ \E c \in {"mkdir", "touch", "rm", "rmdir", "cat", "curl", "mv", "cp"} :
          Submit(<<c>>)
    \/ \E c \in {"mv", "cp"} : Submit(<<c, "Z">>)

EmptyLine == Submit(<<"">>)

Unrecognized == Submit(<<"exit">>)

\* The caller has taken the result (the terminal has appended its line and
\* emptied the input): the next command line can be submitted.
Prompt ==
    /\ pc = "returned"
    /\ ~crashed
    /\ pc' = "ready"
    /\ cmd' = <<>>
    /\ result' = Success(<<>>)
    /\ heldView' = fileSystem
    /\ currentInput' = ""
    /\ UNCHANGED <<fileSystem, objectCtor, crashed, rendered, clock>>
    /\ UNCHANGED <<commandHistory, historyIndex>>

Next ==
    \/ Help \/ Clear \/ Pwd \/ Ls \/ Cd \/ Mkdir \/ Touch \/ Rm \/ Rmdir
    \/ Cat \/ Curl \/ Mv \/ Cp \/ MissingOperand \/ EmptyLine \/ Unrecognized
    \/ Prompt

Spec == Init /\ [][Next]_vars

---------------------------------------------------------------------------
(* The terminal (components/Terminal.tsx): the input line and the history *)
(* of command lines. The lines it displays are not followed.              *)

\* The most command lines the history holds in the model.
MaxHistory == 3

\* What the user types into the input line.
TypedLines == {"", "  ", "pw", "pwd", "c", "mkdir Z", "cd .."}

\* s.trim() on the input lines of the model: the typed ones and the ones
\* Tab completes.
TrimTable == ("  " :> "") @@ ("pwd " :> "pwd")

Trim(s) == IF s \in DOMAIN TrimTable THEN TrimTable[s] ELSE s

\* input.trim().split(/\s+/) on the trimmed lines of the model; a line
\* without white space splits into itself.
TokensTable ==
    ("mkdir Z" :> <<"mkdir", "Z">>) @@ ("cd .." :> <<"cd", "..">>)

Tokens(s) == IF s \in DOMAIN TokensTable THEN TokensTable[s] ELSE <<s>>

\* The command names Tab completes.
commands ==
    {"mkdir", "ls", "cd", "rmdir", "rm", "touch", "mv", "cp", "curl", "pwd",
     "cat", "help", "clear"}

\* commands.filter(cmd => cmd.startsWith(input)) on the trimmed lines of
\* the model; a line that is not listed is the prefix of no command.
StartsWithTable ==
       ("" :> commands)
    @@ ("pw" :> {"pwd"})
    @@ ("pwd" :> {"pwd"})
    @@ ("c" :> {"cd", "cp", "curl", "cat", "clear"})

Matches(input) ==
    IF input \in DOMAIN StartsWithTable THEN StartsWithTable[input] ELSE {}

\* matches[0] + ' ' for the command the model completes
WithSpaceTable == ("pwd" :> "pwd ")

\* onChange: the user edits the input line.
Change ==
    /\ pc = "ready" /\ ~crashed
    /\ \E v \in TypedLines : currentInput' = v
    /\ UNCHANGED <<hookVars, commandHistory, historyIndex>>

\* handleSubmit: a blank line is ignored; any other line is appended to
\* the history, trimmed, the position is reset and executeCommand runs the
\* line (Prompt is the rest of the handler).
HandleSubmit ==
    /\ pc = "ready" /\ ~crashed
    /\ LET command == Trim(currentInput)
       IN  IF command = "" THEN UNCHANGED vars
           ELSE /\ Len(commandHistory) < MaxHistory
                /\ commandHistory' = Append(commandHistory, command)
                /\ historyIndex' = -1
                /\ Execute(Tokens(command))
                /\ UNCHANGED currentInput

\* Mutant of ArrowUpIndex: Math.max(0, ...) is left out.
ArrowUpIndexNoFloor(index, history) ==
    IF index = -1 THEN Len(history) - 1 ELSE index - 1

\* historyIndex === -1 ? commandHistory.length - 1
\*                      : Math.max(0, historyIndex - 1)
ArrowUpIndex(index, history) ==
    IF index = -1 THEN Len(history) - 1
    ELSE IF index - 1 > 0 THEN index - 1 ELSE 0

\* commandHistory[i]: undefined past either end
HistoryAt(history, i) ==
    IF i >= 0 /\ i < Len(history) THEN history[i + 1] ELSE "undefined"

\* handleKeyDown, ArrowUp
ArrowUp ==
    /\ pc = "ready" /\ ~crashed
    /\ IF Len(commandHistory) > 0
         THEN LET newIndex == ArrowUpIndex(historyIndex, commandHistory)
              IN  /\ historyIndex' = newIndex
                  /\ currentInput' = HistoryAt(commandHistory, newIndex)
         ELSE UNCHANGED <<historyIndex, currentInput>>
    /\ UNCHANGED <<hookVars, commandHistory>>

\* handleKeyDown, ArrowDown
ArrowDown ==
    /\ pc = "ready" /\ ~crashed
    /\ IF historyIndex # -1
         THEN LET newIndex == historyIndex + 1
              IN  IF newIndex >= Len(commandHistory)
                    THEN historyIndex' = -1 /\ currentInput' = ""
                    ELSE /\ historyIndex' = newIndex
                         /\ currentInput' = HistoryAt(commandHistory, newIndex)
         ELSE UNCHANGED <<historyIndex, currentInput>>
    /\ UNCHANGED <<hookVars, commandHistory>>

\* handleKeyDown, Tab: a single matching command is completed; several are
\* listed on the display.
Tab ==
    /\ pc = "ready" /\ ~crashed
    /\ LET matches == Matches(Trim(currentInput))
       IN  IF Cardinality(matches) = 1
             THEN currentInput' = WithSpaceTable[CHOOSE c \in matches : TRUE]
             ELSE UNCHANGED currentInput
    /\ UNCHANGED <<hookVars, commandHistory, historyIndex>>

HistoryNext ==
    \/ Change \/ HandleSubmit \/ ArrowUp \/ ArrowDown \/ Tab \/ Prompt

HistorySpec == Init /\ [][HistoryNext]_vars

---------------------------------------------------------------------------
(* Notions the claims are stated in *)

\* The node a path names: the walk from root through the children mappings'
\* own entries; Null when there is none.
RECURSIVE NodeAt(_, _)
NodeAt(node, path) ==
    IF path = <<>> THEN node
    ELSE IF HasChildren(node) /\ Head(path) \in DOMAIN node.children
      THEN NodeAt(node.children[Head(path)], Tail(path))
      ELSE Null

IsDirectory(node) == Truthy(node) /\ TypeOf(node) = "directory"

IsFile(node) == Truthy(node) /\ TypeOf(node) = "file"

\* Every prefix of fs.currentPath names an existing Directory.
Resolvable(fs) ==
    \A i \in 0..Len(fs.currentPath) :
        IsDirectory(NodeAt(fs.root, SubSeq(fs.currentPath, 1, i)))

\* The number of nodes of the tree under (and with) node.
RECURSIVE NodeCount(_)
RECURSIVE SumCounts(_, _)
SumCounts(children, keys) ==
    IF keys = {} THEN 0
    ELSE LET k == CHOOSE x \in keys : TRUE
         IN  NodeCount(children[k]) + SumCounts(children, keys \ {k})

NodeCount(node) ==
    1 + (IF HasChildren(node)
           THEN SumCounts(node.children, DOMAIN node.children) ELSE 0)

\* The step is the execution of a command line whose first token is c and
\* which has n tokens.
Ran(c, n) == pc' = "returned" /\ Len(cmd') = n /\ cmd'[1] = c

\* The command returned without an error and its updater did not throw.
Succeeded == ~result'.error /\ ~crashed'

MutatingCommands == {"mkdir", "touch", "rm", "rmdir", "mv", "cp"}

\* The names of the children of a node (none for a node without children).
ChildNames(node) == IF HasChildren(node) THEN DOMAIN node.children ELSE {}

---------------------------------------------------------------------------
(* The claims *)

\* C1: a command that returns error=true leaves the FileSystem (tree and
\* currentPath) as it was.
C1_FailedCommandChangesNothing ==
    [][(pc' = "returned" /\ result'.error) => fileSystem' = fileSystem]_vars

\* A mutating command has failed in a tree that earlier commands changed.
C1_Witness ==
    /\ pc = "returned" /\ result.error /\ clock > SeedTime + 1
    /\ Len(cmd) >= 2 /\ cmd[1] \in MutatingCommands

\* C2: currentPath is always resolvable.
C2_CurrentPathResolvable == Resolvable(fileSystem)

\* C3: no command execution or state update ends in an exception.
C3_NoCrash == ~crashed

\* C4: root exists, is named '', is a Directory and has a children mapping.
C4_RootImmutable ==
    /\ Truthy(fileSystem.root)
    /\ "name" \in DOMAIN fileSystem.root /\ fileSystem.root.name = ""
    /\ TypeOf(fileSystem.root) = "directory"
    /\ HasChildren(fileSystem.root)

\* rm, rmdir or mv has succeeded with root the current directory.
C4_Witness ==
    /\ pc = "returned" /\ ~result.error /\ ~crashed
    /\ cmd # <<>> /\ cmd[1] \in {"rm", "rmdir", "mv"}
    /\ fileSystem.currentPath = <<>>
    /\ fileSystem # heldView

\* C5: after a command, a reference to the FileSystem value held before it
\* shows the tree and currentPath it showed before.
C5_CopyOnWrite ==
    [][pc' = "returned" => heldView' = fileSystem]_vars

\* A command has installed a new value and the old one still shows the old
\* tree.
C5_Witness ==
    /\ pc = "returned" /\ ~result.error /\ ~crashed
    /\ cmd # <<>> /\ cmd[1] \in MutatingCommands \cup {"cd"}
    /\ fileSystem.root # heldView.root

\* C6: cd <path> succeeds exactly when the resolved path names an existing
\* Directory, and then sets currentPath to it and leaves the tree alone; a
\* missing path gives 'No such file or directory', a File 'Not a
\* directory', and both leave currentPath unchanged.
C6_CdWithArgument ==
    [][Ran("cd", 2) =>
        LET path == cmd'[2]
            target == resolvePath(fileSystem, path)
            node == NodeAt(fileSystem.root, target)
        IN  /\ ~result'.error <=> IsDirectory(node)
            /\ ~result'.error =>
                  /\ ~crashed'
                  /\ fileSystem'.currentPath = target
                  /\ fileSystem'.root = fileSystem.root
            /\ ~Truthy(node) =>
                  result' = Failure(<<"cd: ", path,
                                      ": No such file or directory">>)
            /\ IsFile(node) =>
                  result' = Failure(<<"cd: ", path, ": Not a directory">>)
            /\ result'.error => fileSystem' = fileSystem]_vars

\* C7: cd without an argument returns an empty successful result, sets
\* currentPath to [home, user] and leaves the tree alone.
C7_CdHome ==
    [][Ran("cd", 1) =>
        /\ result' = Success(<<>>) /\ ~crashed'
        /\ fileSystem'.currentPath = <<"home", "user">>
        /\ fileSystem'.root = fileSystem.root]_vars

\* cd without an argument has brought the cursor back from another
\* directory.
C7_Witness ==
    /\ pc = "returned" /\ cmd = <<"cd">>
    /\ heldView.currentPath # <<"home", "user">>
    /\ fileSystem.currentPath = <<"home", "user">>

\* C8: mkdir <name> succeeds exactly when the current directory has no
\* child <name>, and then adds one empty Directory <name>; when there is
\* such a child it fails with 'File exists' and replaces nothing.
C8_Mkdir ==
    [][Ran("mkdir", 2) =>
        LET name == cmd'[2]
            before == getCurrentDirectory(fileSystem)
            after == getCurrentDirectory(fileSystem')
        IN  /\ Succeeded <=> name \notin ChildNames(before)
            /\ Succeeded =>
                  /\ ChildNames(after) = ChildNames(before) \cup {name}
                  /\ IsDirectory(after.children[name])
                  /\ after.children[name].name = name
                  /\ after.children[name].children = EmptyObject
            /\ name \in ChildNames(before) =>
                  /\ result' = Failure(<<"mkdir: cannot create directory '",
                                         name, "': File exists">>)
                  /\ fileSystem' = fileSystem]_vars

\* C9: rmdir on a Directory with a child fails with 'Directory not empty'
\* and removes nothing; a successful rmdir removes a Directory without
\* children; no command removes more than one node.
C9_RmdirGuard ==
    [][/\ Ran("rmdir", 2) =>
            LET name == cmd'[2]
                before == getCurrentDirectory(fileSystem)
                target == IF name \in ChildNames(before)
                            THEN before.children[name] ELSE Null
            IN  /\ (/\ IsDirectory(target)
                    /\ DOMAIN target.children # {}) =>
                      /\ result' = Failure(<<"rmdir: failed to remove '", name,
                                             "': Directory not empty">>)
                      /\ fileSystem' = fileSystem
                /\ (Succeeded /\ fileSystem' # fileSystem) =>
                      /\ IsDirectory(target)
                      /\ target.children = EmptyObject
       /\ \/ fileSystem'.root = fileSystem.root
          \/ \E before \in {NodeCount(fileSystem.root)} :
             \E after \in {NodeCount(fileSystem'.root)} :
                 /\ after >= before - 1
                 /\ after < before => Ran("rm", 2) \/ Ran("rmdir", 2)]_vars

\* rmdir has refused a Directory that has children.
C9_Witness ==
    /\ pc = "returned" /\ cmd = <<"rmdir", "user">>
    /\ result = Failure(<<"rmdir: failed to remove '", "user",
                          "': Directory not empty">>)

\* rmdir has removed an empty Directory.
C9_Removed ==
    /\ pc = "returned" /\ cmd = <<"rmdir", "Z">> /\ ~result.error /\ ~crashed
    /\ "Z" \in ChildNames(getCurrentDirectory(heldView))
    /\ "Z" \notin ChildNames(getCurrentDirectory(fileSystem))

\* C10: after touch f for an absent f, cat f returns ''; after a successful
\* cp s d or mv s d of a File s with content X onto an absent d, cat d
\* returns X, and after cp cat s still returns X.
C10_RoundTrip ==
    [][/\ Ran("touch", 2) =>
            LET f == cmd'[2]
            IN  f \notin ChildNames(getCurrentDirectory(fileSystem)) =>
                  /\ ~crashed'
                  /\ executeCommand(fileSystem', <<"cat", f>>, clock').result
                        = Success(<<>>)
       /\ (Ran("cp", 3) \/ Ran("mv", 3)) =>
            LET s == cmd'[2]
                d == cmd'[3]
                before == getCurrentDirectory(fileSystem)
            IN  (/\ s \in ChildNames(before) /\ IsFile(before.children[s])
                 /\ d \notin ChildNames(before)) =>
                  LET X == Success(Str(before.children[s].content))
                  IN  /\ Succeeded
                      /\ executeCommand(fileSystem', <<"cat", d>>,
                                        clock').result = X
                      /\ cmd'[1] = "cp" =>
                            executeCommand(fileSystem', <<"cat", s>>,
                                           clock').result = X]_vars


\* The number of Directory nodes of the tree under (and with) node.
RECURSIVE DirCount(_)
RECURSIVE SumDirCounts(_, _)
SumDirCounts(children, keys) ==
    IF keys = {} THEN 0
    ELSE LET k == CHOOSE x \in keys : TRUE
         IN  DirCount(children[k]) + SumDirCounts(children, keys \ {k})

DirCount(node) ==
    (IF TypeOf(node) = "directory" THEN 1 ELSE 0)
    + (IF HasChildren(node)
         THEN SumDirCounts(node.children, DOMAIN node.children) ELSE 0)

\* C11: mv <src> <dest> with src a child of the current directory and dest
\* not one puts the old src node, renamed, under dest, removes src and
\* leaves every other child and every node outside the current directory
\* alone; a missing src fails with 'No such file or directory' and an
\* existing dest (also dest = src) with 'File exists'.
C11_Mv ==
    [][Ran("mv", 3) =>
        LET s == cmd'[2]
            d == cmd'[3]
            before == getCurrentDirectory(fileSystem)
            after == getCurrentDirectory(fileSystem')
        IN  /\ s \notin ChildNames(before) =>
                  /\ result' = Failure(<<"mv: cannot stat '", s,
                                         "': No such file or directory">>)
                  /\ fileSystem' = fileSystem
            /\ (s \in ChildNames(before) /\ d \in ChildNames(before)) =>
                  /\ result' = Failure(<<"mv: cannot move '", s, "' to '", d,
                                         "': File exists">>)
                  /\ fileSystem' = fileSystem
            /\ (s \in ChildNames(before) /\ d \notin ChildNames(before)) =>
                  /\ Succeeded
                  /\ fileSystem'.currentPath = fileSystem.currentPath
                  /\ ChildNames(after) = (ChildNames(before) \ {s}) \cup {d}
                  /\ after.children[d] = [before.children[s] EXCEPT !.name = d]
                  /\ \A k \in ChildNames(before) \ {s} :
                        after.children[k] = before.children[k]
                  /\ fileSystem'.root =
                        ReplaceAt(fileSystem.root, fileSystem.currentPath,
                                  after)]_vars

\* C12: rm <name> on a File child removes that one entry and changes no
\* other node's name, kind, content or children; on a Directory it fails
\* with 'Is a directory' and on a missing name with 'No such file or
\* directory'; rm never removes a Directory.
C12_Rm ==
    [][Ran("rm", 2) =>
        LET n == cmd'[2]
            before == getCurrentDirectory(fileSystem)
            after == getCurrentDirectory(fileSystem')
        IN  /\ n \notin ChildNames(before) =>
                  /\ result' = Failure(<<"rm: cannot remove '", n,
                                         "': No such file or directory">>)
                  /\ fileSystem' = fileSystem
            /\ (n \in ChildNames(before) /\ IsDirectory(before.children[n])) =>
                  /\ result' = Failure(<<"rm: cannot remove '", n,
                                         "': Is a directory">>)
                  /\ fileSystem' = fileSystem
            /\ (n \in ChildNames(before) /\ IsFile(before.children[n])) =>
                  /\ Succeeded
                  /\ fileSystem'.currentPath = fileSystem.currentPath
                  /\ after.children = DeleteKey(before.children, n)
                  /\ fileSystem'.root =
                        ReplaceAt(fileSystem.root, fileSystem.currentPath,
                            [before EXCEPT !.children = after.children,
                                           !.modified = after.modified])
            /\ DirCount(fileSystem'.root) = DirCount(fileSystem.root)]_vars

\* C13: cp <src> <dest> with src a Directory child of the current directory
\* is refused with the '-r not specified' message, whatever dest is, and
\* changes nothing; cp never makes a Directory.
C13_CpDirectory ==
    [][Ran("cp", 3) =>
        LET s == cmd'[2]
            before == getCurrentDirectory(fileSystem)
        IN  /\ (s \in ChildNames(before) /\ IsDirectory(before.children[s])) =>
                  /\ result' =
                        Failure(<<"cp: -r not specified; omitting directory '",
                                  s, "'">>)
                  /\ fileSystem' = fileSystem
            /\ DirCount(fileSystem'.root) = DirCount(fileSystem.root)]_vars

\* C14: touch <name> on an existing child changes only that child's
\* modified time: no other field of it, no field of another node, no node
\* added or removed; on an absent name it creates a File child with content
\* ''.
C14_Touch ==
    [][Ran("touch", 2) =>
        LET n == cmd'[2]
            before == getCurrentDirectory(fileSystem)
            after == getCurrentDirectory(fileSystem')
        IN  /\ n \in ChildNames(before) =>
                  /\ Succeeded
                  /\ fileSystem'.currentPath = fileSystem.currentPath
                  /\ n \in ChildNames(after)
                  /\ fileSystem'.root =
                        ReplaceAt(fileSystem.root,
                            Append(fileSystem.currentPath, n),
                            [before.children[n] EXCEPT
                                !.modified = after.children[n].modified])
            /\ n \notin ChildNames(before) =>
                  /\ Succeeded
                  /\ ChildNames(after) = ChildNames(before) \cup {n}
                  /\ IsFile(after.children[n])
                  /\ after.children[n].name = n
                  /\ after.children[n].content = ""]_vars

\* The names of the model in plain lexicographic order (by code unit: an
\* upper-case letter comes before every lower-case one).
PlainOrder ==
    <<"Z", "constructor", "documents", "home", "tmp", "user", "welcome.txt">>

PlainRank(name) ==
    IF \E i \in 1..Len(PlainOrder) : PlainOrder[i] = name
      THEN CHOOSE i \in 1..Len(PlainOrder) : PlainOrder[i] = name
      ELSE 0

\* Directories before files and, within a kind, plain lexicographic order.
PlainBefore(a, b) ==
    IF IsDirectory(a) # IsDirectory(b) THEN IsDirectory(a)
    ELSE PlainRank(a.name) =< PlainRank(b.name)

RECURSIVE PlainSorted(_)
PlainSorted(items) ==
    IF items = {} THEN <<>>
    ELSE LET first == CHOOSE a \in items :
                          \A b \in items \ {a} : PlainBefore(a, b)
         IN  <<first>> \o PlainSorted(items \ {first})

\* C15: ls on an existing directory prints one line per child, Directories
\* before Files and each kind in plain lexicographic order of name; ls
\* <path> fails with 'No such file or directory' on a missing path and with
\* 'Not a directory' on a File.
C15_Ls ==
    [][(Ran("ls", 1) \/ Ran("ls", 2)) =>
        LET targetPath == IF Len(cmd') = 2
                            THEN resolvePath(fileSystem, cmd'[2])
                            ELSE fileSystem.currentPath
            node == NodeAt(fileSystem.root, targetPath)
        IN  /\ IsDirectory(node) =>
                  result' = Success(JoinLines(PlainSorted(
                      {node.children[k] : k \in ChildNames(node)})))
            /\ (Len(cmd') = 2 /\ ~Truthy(node)) =>
                  result' = Failure(<<"ls: cannot access '", cmd'[2],
                                      "': No such file or directory">>)
            /\ (Len(cmd') = 2 /\ IsFile(node)) =>
                  result' = Failure(<<"ls: cannot access '", cmd'[2],
                                      "': Not a directory">>)]_vars

CleanSegments(path) ==
    \A i \in 1..Len(path) : path[i] \notin {".", "..", ""}

\* C17: the segment list path resolution returns for the path typed to cd
\* or ls has no '.', no '..' and no empty segment, and neither has
\* currentPath.
C17_ResolvedPathClean ==
    [][/\ (Ran("cd", 2) \/ Ran("ls", 2)) =>
            CleanSegments(resolvePath(fileSystem, cmd'[2]))
       /\ CleanSegments(fileSystem'.currentPath)]_vars

\* C18: '.' resolves to currentPath; and after cd .. from a non-root
\* currentPath P, the last segment of P resolves back to P.
C18_PathIdempotence ==
    [][/\ resolvePath(fileSystem', ".") = fileSystem'.currentPath
       /\ (Ran("cd", 2) /\ cmd'[2] = ".." /\ fileSystem.currentPath # <<>>) =>
            resolvePath(fileSystem',
                        fileSystem.currentPath[Len(fileSystem.currentPath)])
              = fileSystem.currentPath]_vars

\* Under node: every key of a children mapping is the name of the child
\* under it, a File has content and no children mapping, a Directory has a
\* children mapping and no content.
RECURSIVE WellFormed(_)
WellFormed(node) ==
    /\ TypeOf(node) = "file" =>
          "content" \in DOMAIN node /\ ~HasChildren(node)
    /\ TypeOf(node) = "directory" =>
          HasChildren(node) /\ "content" \notin DOMAIN node
    /\ HasChildren(node) =>
          \A k \in DOMAIN node.children :
              /\ "name" \in DOMAIN node.children[k]
              /\ node.children[k].name = k
              /\ WellFormed(node.children[k])

\* C19: the structural invariants hold in every reachable state.
C19_Structure == WellFormed(fileSystem.root)

\* mv has renamed a Directory that has children.
C19_Witness ==
    /\ pc = "returned" /\ cmd = <<"mv", "user", "Z">>
    /\ ~result.error /\ ~crashed
    /\ IsDirectory(NodeAt(fileSystem.root, <<"home", "Z">>))
    /\ NodeAt(fileSystem.root, <<"home", "Z">>).children # EmptyObject

\* C20: getCurrentDirectory() is the node currentPath names, and ls without
\* an argument succeeds and lists the children of that directory.
C20_LsCurrentDirectory ==
    [][/\ getCurrentDirectory(fileSystem')
            = NodeAt(fileSystem'.root, fileSystem'.currentPath)
       /\ Ran("ls", 1) =>
            LET dir == getCurrentDirectory(fileSystem)
            IN  /\ ~result'.error
                /\ HasChildren(dir)
                /\ result'.output = JoinLines(LsItems(dir))]_vars

\* The created and modified times of a node.
Times(node) == <<node.created, node.modified>>

\* C21: a successful mkdir, touch, rm, rmdir, mv or cp sets the modified
\* time of the current directory to the time of the command and changes no
\* created or modified time of an ancestor of the current directory or of a
\* node outside the affected child; mv keeps the times of the node it moves
\* and cp gives the copy the time of the command as created and modified.
C21_Timestamps ==
    [][(pc' = "returned" /\ cmd' # <<>> /\ cmd'[1] \in MutatingCommands
        /\ Len(cmd') >= 2 /\ Succeeded) =>
        \E before \in {getCurrentDirectory(fileSystem)} :
        \E after \in {getCurrentDirectory(fileSystem')} :
        LET src == cmd'[2]
            dest == cmd'[Len(cmd')]
            affected == IF cmd'[1] = "mv" THEN {src, dest} ELSE {dest}
        IN  /\ after.modified = clock
            /\ after.created = before.created
            /\ \A k \in ChildNames(before) \ affected :
                  k \in ChildNames(after) /\ after.children[k] = before.children[k]
            /\ fileSystem'.root =
                  ReplaceAt(fileSystem.root, fileSystem.currentPath, after)
            /\ (cmd'[1] = "mv" /\ src \in ChildNames(before)) =>
                  Times(after.children[dest]) = Times(before.children[src])
            /\ (cmd'[1] = "cp" /\ src \in ChildNames(before)) =>
                  Times(after.children[dest]) = <<clock, clock>>]_vars

\* rm has removed a file two levels below root at a time later than the
\* seed's: the current directory carries that time, its parent the seed's.
C21_Witness ==
    /\ pc = "returned" /\ cmd = <<"rm", "welcome.txt">>
    /\ ~result.error /\ ~crashed
    /\ fileSystem.currentPath = <<"home", "user">>
    /\ NodeAt(fileSystem.root, <<"home", "user">>).modified > SeedTime + 1
    /\ NodeAt(fileSystem.root, <<"home">>).modified = SeedTime

\* The first tokens of the command lines that only read.
ReadOnlyCommands == {"pwd", "ls", "cat", "help", "clear", "curl"}

\* The pieces of '/' followed by the segments of path joined by '/': a
\* slash before the first segment and between two segments.
IsSlashPath(output, path) ==
    IF path = <<>> THEN output = <<"/">>
    ELSE /\ Len(output) = 2 * Len(path)
         /\ \A i \in 1..Len(path) :
               output[2 * i - 1] = "/" /\ output[2 * i] = path[i]

\* C22: pwd, ls, cat, help, clear, curl, the empty line and an unrecognized
\* command name leave the tree and currentPath as they were; pwd returns
\* '/' and the segments of currentPath joined by '/'; an unrecognized name
\* returns error=true with 'Command not recognized: <name>'.
C22_ReadOnlyCommands ==
    [][(pc' = "returned" /\ cmd' # <<>>
        /\ cmd'[1] \notin MutatingCommands \cup {"cd"}) =>
        /\ fileSystem' = fileSystem
        /\ ~crashed'
        /\ cmd'[1] = "pwd" =>
              /\ ~result'.error
              /\ IsSlashPath(result'.output, fileSystem.currentPath)
        /\ cmd'[1] = "" => result' = Success(<<>>)
        /\ cmd'[1] \notin ReadOnlyCommands \cup {""} =>
              result' = Failure(<<"Command not recognized: ", cmd'[1]>>)]_vars

\* pwd has printed '/' at root, and a path of two segments after the tree
\* was changed.
C22_Witness ==
    /\ pc = "returned" /\ cmd = <<"pwd">>
    /\ fileSystem.currentPath = <<"home", "user">>
    /\ result = Success(<<"/", "home", "/", "user">>)
    /\ clock > SeedTime + 1

\* C23: historyIndex is -1 or an index into commandHistory; a submitted
\* line that is not blank appends exactly one entry and resets historyIndex
\* to -1, and nothing else changes the history; ArrowUp at index 0 stays at
\* 0; ArrowDown at the last entry returns to -1 with an empty input line;
\* ArrowUp, ArrowDown and Tab leave the FileSystem alone.
C23_HistoryNavigation ==
    [][/\ historyIndex' = -1
          \/ (0 =< historyIndex' /\ historyIndex' < Len(commandHistory'))
       /\ (HandleSubmit /\ Trim(currentInput) # "") =>
            /\ commandHistory' = Append(commandHistory, Trim(currentInput))
            /\ historyIndex' = -1
       /\ commandHistory' # commandHistory =>
            HandleSubmit /\ Trim(currentInput) # ""
       /\ (ArrowUp /\ historyIndex = 0) => historyIndex' = 0
       /\ (ArrowDown /\ historyIndex = Len(commandHistory) - 1) =>
            historyIndex' = -1 /\ currentInput' = ""
       /\ (ArrowUp \/ ArrowDown \/ Tab) =>
            fileSystem' = fileSystem /\ ~crashed']_vars

\* ArrowUp has gone back to the oldest of several entries, in a tree a
\* submitted command has changed.
C23_Witness ==
    /\ pc = "ready" /\ Len(commandHistory) >= 2
    /\ historyIndex = 0 /\ currentInput = commandHistory[1]
    /\ clock > SeedTime + 1

=============================================================================
